---- MODULE Spec2Model ----
(***************************************************************************)
(* Relay range classifier of the Apple Private Relay analysis notebooks    *)
(* (T292106-relay-pageviews.ipynb, T292106-relay-non-edits.ipynb).         *)
(*                                                                         *)
(* The notebooks build the module-level index dict_nets from the published *)
(* egress range list and then label every row with is_ip_private_relay.    *)
(*                                                                         *)
(* Texts are sequences of one-character strings.  Addresses are scaled     *)
(* down so that the state space is finite: an IPv4 address has V4Groups    *)
(* octets of OctetBits bits, an IPv6 address has V6Groups hextets of       *)
(* HextetBits bits, and the dotted tail of an IPv6 literal stands for its  *)
(* last V4Bits bits, as in Python's ipaddress module (32 and 128 bits).    *)
(***************************************************************************)
EXTENDS Integers, Sequences, FiniteSets, Bags, TLC

(* ---------------- address geometry (ipaddress module, scaled) ---------- *)

V4Groups == 2

OctetBits == 1

V6Groups == 2

HextetBits == 2

MaxOctetLen == 3

MaxHextetLen == 1

MinParts == 2

V4Bits == V4Groups * OctetBits

V6Bits == V6Groups * HextetBits

RECURSIVE Pow2(_)
Pow2(n) == IF n = 0 THEN 1 ELSE 2 * Pow2(n - 1)

MaxPrefixlen(version) == IF version = 4 THEN V4Bits ELSE V6Bits

AllOnes(version) == Pow2(MaxPrefixlen(version)) - 1

RECURSIVE BitAnd(_, _)
BitAnd(a, b) ==
    IF a = 0 \/ b = 0 THEN 0
    ELSE 2 * BitAnd(a \div 2, b \div 2) + (IF a % 2 = 1 /\ b % 2 = 1 THEN 1 ELSE 0)

(* ---------------- text helpers (str methods) --------------------------- *)

DecDigits == <<"0", "1", "2", "3", "4", "5", "6", "7", "8", "9">>

HexDigits == <<"0", "1", "2", "3">>

IsDigitOf(c, digits) == \E i \in 1..Len(digits) : digits[i] = c

DigitVal(c, digits) == (CHOOSE i \in 1..Len(digits) : digits[i] = c) - 1

AllDigits(s, digits) == \A i \in 1..Len(s) : IsDigitOf(s[i], digits)

RECURSIVE IntOf(_, _)
IntOf(s, digits) ==
    IF Len(s) = 0 THEN 0
    ELSE Len(digits) * IntOf(SubSeq(s, 1, Len(s) - 1), digits) + DigitVal(s[Len(s)], digits)

Contains(s, c) == \E i \in 1..Len(s) : s[i] = c

RECURSIVE Split(_, _)
Split(s, sep) ==
    IF ~Contains(s, sep) THEN <<s>>
    ELSE LET i == CHOOSE k \in 1..Len(s) :
                      s[k] = sep /\ \A j \in 1..(k - 1) : s[j] # sep
         IN  <<SubSeq(s, 1, i - 1)>> \o Split(SubSeq(s, i + 1, Len(s)), sep)

(* ---------------- ipaddress: parsing ----------------------------------- *)

ValueError == -1

(* a ValueError anywhere in a list of parsed groups is a ValueError *)
InRange(value, max) == IF value > max THEN ValueError ELSE value

RECURSIVE JoinGroups(_, _)
JoinGroups(vals, bits) ==
    IF Len(vals) = 0 THEN 0
    ELSE Pow2(bits) * JoinGroups(SubSeq(vals, 1, Len(vals) - 1), bits) + vals[Len(vals)]

GroupsValue(vals, bits) ==
    IF \E i \in 1..Len(vals) : vals[i] = ValueError THEN ValueError
    ELSE JoinGroups(vals, bits)

(* _parse_octet *)
ParseOctet(octet_str) ==
    IF Len(octet_str) = 0 THEN ValueError
    ELSE IF ~AllDigits(octet_str, DecDigits) THEN ValueError
    ELSE IF Len(octet_str) > MaxOctetLen THEN ValueError
    ELSE InRange(IntOf(octet_str, DecDigits), Pow2(OctetBits) - 1)

OctetsValue(octets) ==
    IF Len(octets) # V4Groups THEN ValueError
    ELSE GroupsValue([i \in 1..Len(octets) |-> ParseOctet(octets[i])], OctetBits)

(* IPv4Address._ip_int_from_string *)
IPv4IntFromString(ip_str) ==
    IF Len(ip_str) = 0 THEN ValueError
    ELSE OctetsValue(Split(ip_str, "."))

(* _parse_hextet *)
ParseHextet(hextet_str) ==
    IF ~AllDigits(hextet_str, HexDigits) THEN ValueError
    ELSE IF Len(hextet_str) > MaxHextetLen THEN ValueError
    ELSE IF Len(hextet_str) = 0 THEN ValueError
    ELSE IntOf(hextet_str, HexDigits)

RECURSIVE FormatHextets(_, _)
FormatHextets(val, n) ==
    IF n = 0 THEN <<>>
    ELSE FormatHextets(val \div Pow2(HextetBits), n - 1)
             \o << <<HexDigits[(val % Pow2(HextetBits)) + 1]>> >>

Front(s) == SubSeq(s, 1, Len(s) - 1)

Last(s) == s[Len(s)]

WithTail(front, ipv4_int) ==
    IF ipv4_int = ValueError THEN <<>>
    ELSE front \o FormatHextets(ipv4_int, V4Bits \div HextetBits)

(* a dotted tail is parsed as an IPv4 address and rewritten as hextets; *)
(* no parts are left when the tail is no IPv4 address                    *)
ExpandDottedTail(parts) ==
    IF Contains(Last(parts), ".")
    THEN WithTail(Front(parts), IPv4IntFromString(Last(parts)))
    ELSE parts

HextetsValue(parts, parts_hi, parts_lo, parts_skipped) ==
    GroupsValue(
        [i \in 1..V6Groups |->
            IF i <= parts_hi THEN ParseHextet(parts[i])
            ELSE IF i <= parts_hi + parts_skipped THEN 0
            ELSE ParseHextet(parts[Len(parts) - V6Groups + i])],
        HextetBits)

(* the literal holds a '::' at part skip_index *)
CompressedValue(parts, parts_hi, parts_lo) ==
    IF parts[1] = <<>> /\ parts_hi # 0 THEN ValueError
    ELSE IF Last(parts) = <<>> /\ parts_lo # 0 THEN ValueError
    ELSE IF V6Groups - (parts_hi + parts_lo) < 1 THEN ValueError
    ELSE HextetsValue(parts, parts_hi, parts_lo, V6Groups - (parts_hi + parts_lo))

SkipValue(parts, skips) ==
    IF Cardinality(skips) > 1 THEN ValueError
    ELSE IF skips # {}
    THEN CompressedValue(parts,
             ((CHOOSE i \in skips : TRUE) - 1) - (IF parts[1] = <<>> THEN 1 ELSE 0),
             (Len(parts) - (CHOOSE i \in skips : TRUE))
                 - (IF Last(parts) = <<>> THEN 1 ELSE 0))
    ELSE IF Len(parts) # V6Groups THEN ValueError
    ELSE IF parts[1] = <<>> \/ Last(parts) = <<>> THEN ValueError
    ELSE HextetsValue(parts, Len(parts), 0, 0)

ExpandedValue(parts) ==
    IF Len(parts) = 0 THEN ValueError
    ELSE IF Len(parts) > V6Groups + 1 THEN ValueError
    ELSE SkipValue(parts, {i \in 2..(Len(parts) - 1) : parts[i] = <<>>})

PartsValue(parts) ==
    IF Len(parts) < MinParts THEN ValueError
    ELSE ExpandedValue(ExpandDottedTail(parts))

(* IPv6Address._ip_int_from_string *)
IPv6IntFromString(ip_str) ==
    IF Len(ip_str) = 0 THEN ValueError
    ELSE PartsValue(Split(ip_str, ":"))

(* an address object: version and integer value; NoAddress stands for a raised *)
(* ValueError (AddressValueError and NetmaskValueError are subclasses of it)   *)
NoAddress == [version |-> 0, ip |-> ValueError]

AddressOf(version, ip_int) ==
    IF ip_int = ValueError THEN NoAddress
    ELSE [version |-> version, ip |-> ip_int]

IPv4Address(address) ==
    IF Contains(address, "/") THEN NoAddress
    ELSE AddressOf(4, IPv4IntFromString(address))

IPv6Address(address) ==
    IF Contains(address, "/") THEN NoAddress
    ELSE AddressOf(6, IPv6IntFromString(address))

FirstAddress(v4, v6) == IF v4 # NoAddress THEN v4 ELSE v6

(* an IPv4-mapped IPv6 address is normalised to its IPv4 address (ip.ipv4_mapped) *)
Ipv4Mapped(ip) ==
    IF ip.version = 6 /\ ip.ip \div Pow2(V4Bits) = Pow2(V6Bits - V4Bits) - 1
    THEN [version |-> 4, ip |-> ip.ip % Pow2(V4Bits)]
    ELSE ip

ip_address_normalised(address) ==
    Ipv4Mapped(FirstAddress(IPv4Address(address), IPv6Address(address)))

(* ipaddress.ip_address: IPv4 is tried first, then IPv6 *)
ip_address(address) == FirstAddress(IPv4Address(address), IPv6Address(address))

(* int(ip) of an address object *)
int(ip) == ip.ip

(* one map for both families *)
strOneFamily(version) == "4"

(* str(ip.version) *)
str(version) == IF version = 4 THEN "4" ELSE "6"

(* ---------------- ipaddress: networks ---------------------------------- *)

(* _count_righthand_zero_bits *)
RECURSIVE CountRighthandZeroBits(_, _)
CountRighthandZeroBits(number, bits) ==
    IF number = 0 THEN bits
    ELSE IF number % 2 = 1 \/ bits = 0 THEN 0
    ELSE 1 + CountRighthandZeroBits(number \div 2, bits - 1)

(* the shift is one bit short: ALL_ONES ^ (ALL_ONES >> (prefixlen - 1)) *)
IpIntFromPrefixShort(version, prefixlen) ==
    AllOnes(version)
        - (AllOnes(version) \div Pow2(IF prefixlen = 0 THEN 0 ELSE prefixlen - 1))

(* a shift by the full width leaves the word as it is: prefix 0 gives *)
(* the netmask of the full prefix                                     *)
IpIntFromPrefixZeroFull(version, prefixlen) ==
    IF prefixlen = 0 THEN AllOnes(version)
    ELSE AllOnes(version) - (AllOnes(version) \div Pow2(prefixlen))

(* the hostmask is taken for the netmask: ALL_ONES >> prefixlen *)
IpIntFromPrefixHostmask(version, prefixlen) ==
    AllOnes(version) \div Pow2(prefixlen)

(* _ip_int_from_prefix: ALL_ONES ^ (ALL_ONES >> prefixlen) *)
IpIntFromPrefix(version, prefixlen) ==
    AllOnes(version) - (AllOnes(version) \div Pow2(prefixlen))

LeadingOnes(ip_int, trailing_zeroes, prefixlen) ==
    IF ip_int \div Pow2(trailing_zeroes) # Pow2(prefixlen) - 1 THEN ValueError
    ELSE prefixlen

TrailingPrefix(version, ip_int, trailing_zeroes) ==
    LeadingOnes(ip_int, trailing_zeroes, MaxPrefixlen(version) - trailing_zeroes)

(* _prefix_from_ip_int *)
PrefixFromIpInt(version, ip_int) ==
    TrailingPrefix(version, ip_int, CountRighthandZeroBits(ip_int, MaxPrefixlen(version)))

(* _prefix_from_prefix_string *)
PrefixFromPrefixString(version, prefixlen_str) ==
    IF ~AllDigits(prefixlen_str, DecDigits) THEN ValueError
    ELSE IF Len(prefixlen_str) = 0 THEN ValueError
    ELSE InRange(IntOf(prefixlen_str, DecDigits), MaxPrefixlen(version))

FirstPrefix(a, b) == IF a # ValueError THEN a ELSE b

NetmaskOrHostmask(ip_int) ==
    IF ip_int = ValueError THEN ValueError
    ELSE FirstPrefix(PrefixFromIpInt(4, ip_int), PrefixFromIpInt(4, AllOnes(4) - ip_int))

(* _prefix_from_ip_string: a netmask, or else a hostmask *)
PrefixFromIpString(ip_str) == NetmaskOrHostmask(IPv4IntFromString(ip_str))

(* _make_netmask: the prefix length of the part after the slash *)
MakeNetmask(version, arg) ==
    FirstPrefix(PrefixFromPrefixString(version, arg),
                IF version = 4 THEN PrefixFromIpString(arg) ELSE ValueError)

(* a network object; NoNetwork stands for a raised ValueError *)
NoNetwork == [version |-> 0, netmask |-> NoAddress, network_address |-> NoAddress]

(* strict=False: host bits are cleared and the network is accepted *)
StrictNetworkMasked(version, ip_int, mask) ==
    [version |-> version,
     netmask |-> [version |-> version, ip |-> mask],
     network_address |-> [version |-> version, ip |-> BitAnd(ip_int, mask)]]

(* host bits are neither rejected nor cleared *)
StrictNetworkUnmasked(version, ip_int, mask) ==
    [version |-> version,
     netmask |-> [version |-> version, ip |-> mask],
     network_address |-> [version |-> version, ip |-> ip_int]]

(* strict=True: an address with host bits set is no network *)
StrictNetwork(version, ip_int, mask) ==
    IF BitAnd(ip_int, mask) # ip_int THEN NoNetwork
    ELSE [version |-> version,
          netmask |-> [version |-> version, ip |-> mask],
          network_address |-> [version |-> version, ip |-> BitAnd(ip_int, mask)]]

NetworkOf(version, ip_int, prefixlen) ==
    IF ip_int = ValueError \/ prefixlen = ValueError THEN NoNetwork
    ELSE StrictNetwork(version, ip_int, IpIntFromPrefix(version, prefixlen))

IpIntFromString(version, ip_str) ==
    IF version = 4 THEN IPv4IntFromString(ip_str) ELSE IPv6IntFromString(ip_str)

(* _split_optional_netmask, then the address and the optional prefix *)
NetworkOfParts(version, addr) ==
    IF Len(addr) > 2 THEN NoNetwork
    ELSE NetworkOf(version, IpIntFromString(version, addr[1]),
                   IF Len(addr) = 2 THEN MakeNetmask(version, addr[2])
                   ELSE MaxPrefixlen(version))

(* IPv4Network(address) and IPv6Network(address) *)
Network(version, address) == NetworkOfParts(version, Split(address, "/"))

FirstNetwork(v4, v6) == IF v4 # NoNetwork THEN v4 ELSE v6

(* ipaddress.ip_network: IPv4 is tried first, then IPv6 *)
ip_network(address) == FirstNetwork(Network(4, address), Network(6, address))

(* ---------------- inputs ----------------------------------------------- *)

MaxRanges == 2

(* entries of the range column: valid networks of both families (nested,   *)
(* same netmask, every prefix length from 0 to the full one, no prefix)    *)
(* and invalid ones (host bits set, not a network)                         *)
RangeTexts ==
    { <<"1", ".", "0", "/", "1">>, <<"1", ".", "1", "/", "2">>, <<"0", ".", "0", "/", "0">>, <<"0", ".", "1">>,
      <<"2", ":", "0", "/", "2">>, <<"2", ":", "0", "/", "3">>, <<"0", ":", "0", "/", "2">>, <<"2", ":", "0", "/", "1">>,
      <<"0", ":", "2", "/", "4">>, <<"1", ".", "1", "/", "1">>, <<"x">>, <<"0", ":", "0", "/", "0">> }

(* texts of the ip column: every IPv4 and IPv6 address, IPv6 literals with *)
(* a dotted tail, compressed IPv6 literals, and texts that are no address  *)
IpTexts ==
    { <<"0", ".", "0">>, <<"0", ".", "1">>, <<"1", ".", "0">>, <<"1", ".", "1">>,
      <<"0", ":", "0">>, <<"0", ":", "1">>, <<"0", ":", "2">>, <<"0", ":", "3">>,
      <<"1", ":", "0">>, <<"1", ":", "1">>, <<"1", ":", "2">>, <<"1", ":", "3">>,
      <<"2", ":", "0">>, <<"2", ":", "1">>, <<"2", ":", "2">>, <<"2", ":", "3">>,
      <<"3", ":", "0">>, <<"3", ":", "1">>, <<"3", ":", "2">>, <<"3", ":", "3">>,
      <<"3", ":", "0", ".", "0">>, <<"3", ":", "0", ".", "1">>, <<"3", ":", "1", ".", "0">>, <<"3", ":", "1", ".", "1">>,
      <<"0", ":", "1", ".", "0">>, <<":", ":">>, <<":", ":", "1">>, <<"2", ":", ":">>,
      <<>>, <<"x">>, <<"9", ".", "9">>, <<"1">>,
      <<"1", ".">>, <<"1", ".", "0", "/", "1">>, <<"1", ".", "0", ".", "1">>, <<"4", ":", "0">>,
      <<"0", ":", "0", ":", "0">>, <<":">> }

RECURSIVE SeqsUpTo(_, _)
SeqsUpTo(S, n) ==
    IF n = 0 THEN {<<>>}
    ELSE SeqsUpTo(S, n - 1)
             \cup {Append(s, x) : s \in {q \in SeqsUpTo(S, n - 1) : Len(q) = n - 1}, x \in S}

(* ---------------- state ------------------------------------------------ *)

VARIABLES
    relay_ranges,   \* relay_ranges.range: the entries of the range column, in file order
    pos,            \* number of entries the loader loop has consumed
    pc,             \* "load": loader cell running, "ready": later cells run,
                    \* "failed": the loader cell raised and the run stopped
    runs,           \* number of times the loader cell has been started
    dict_nets,      \* '4' and '6' -> defaultdict(set), as (netmask, range_set) items
                    \* in insertion order
    last,           \* the latest call of is_ip_private_relay and its outcome
    workers,        \* the calls in progress in the parallel workers of rdd.map
    pageview_actor, \* the rows of the table wmf.pageview_actor
    viewers_data,   \* the rows the where clauses of the latest aggregation kept
    viewers_data_is_relay,      \* the rows the map over viewers_data.rdd made of them
    agg_viewer_data_by_relay,   \* the rows of the latest groupBy(...).agg(count)
    db_table,       \* the rows of the table aggreate_daily inserts into, as a bag
    earlier_ranges, \* the lists relay_ranges held before the file was read again
    aggregated      \* the days aggreate_daily has been run for, in the order of the runs

(* the state of the aggregation cells *)
aggvars == <<pageview_actor, viewers_data, viewers_data_is_relay,
             agg_viewer_data_by_relay, db_table, aggregated>>

vars == <<relay_ranges, pos, pc, runs, dict_nets, last, workers, aggvars,
          earlier_ranges>>

MaxRuns == 2

(* ---------------- dict_nets -------------------------------------------- *)

HasKey(dd, key) == \E i \in 1..Len(dd) : dd[i].netmask = key

(* an item is appended for every access, whether or not the key is present *)
GetItemAlwaysNew(dd, key) == Append(dd, [netmask |-> key, range_set |-> {}])

(* defaultdict(set).__getitem__: a missing key is inserted with an empty set *)
GetItem(dd, key) ==
    IF HasKey(dd, key) THEN dd
    ELSE Append(dd, [netmask |-> key, range_set |-> {}])

(* dd[key] = {x} in place of dd[key].add(x) *)
SetAddReplace(dd, key, x) ==
    [i \in 1..Len(dd) |->
        IF dd[i].netmask = key THEN [dd[i] EXCEPT !.range_set = {x}] ELSE dd[i]]

(* dd[key].add(x) *)
SetAdd(dd, key, x) ==
    [i \in 1..Len(dd) |->
        IF dd[i].netmask = key
        THEN [dd[i] EXCEPT !.range_set = @ \cup {x}]
        ELSE dd[i]]

(* the map of the family is made anew in every iteration of the loop *)
AddNetFresh(d, net) ==
    [d EXCEPT ![str(net.version)] = SetAdd(GetItem(<<>>, net.netmask), net.netmask,
                                           int(net.network_address))]

(* dict_nets[net_v][net.netmask].add(int(net.network_address)) *)
AddNet(d, net) ==
    [d EXCEPT ![str(net.version)] = SetAdd(GetItem(@, net.netmask), net.netmask,
                                           int(net.network_address))]

EmptyDictNets == [v \in {"4", "6"} |-> <<>>]

(* ---------------- is_ip_private_relay ---------------------------------- *)

Return(value) == [raised |-> FALSE, value |-> value]

Raise == [raised |-> TRUE, value |-> FALSE]

(* the masked address is looked up in the networks of every netmask *)
ScanItemsAnySet(items, bin_ip) ==
    \E i \in 1..Len(items), j \in 1..Len(items) :
        BitAnd(bin_ip, int(items[i].netmask)) \in items[j].range_set

(* the loop returns False when the first netmask does not match *)
ScanItemsFirstOnly(items, bin_ip) ==
    /\ Len(items) > 0
    /\ BitAnd(bin_ip, int(Head(items).netmask)) \in Head(items).range_set

(* the address is looked up unmasked: bin_ip in range_set *)
ScanItemsUnmasked(items, bin_ip) ==
    \E i \in 1..Len(items) : bin_ip \in items[i].range_set

(* the for loop over dict_nets[str(ip.version)].items() *)
RECURSIVE ScanItems(_, _)
ScanItems(items, bin_ip) ==
    IF Len(items) = 0 THEN FALSE
    ELSE IF BitAnd(bin_ip, int(Head(items).netmask)) \in Head(items).range_set THEN TRUE
    ELSE ScanItems(Tail(items), bin_ip)

(* no except clause: the ValueError leaves is_ip_private_relay *)
OnValueErrorUncaught == Raise

(* what the except clause makes of a ValueError of ip_address *)
OnValueError == Return(FALSE)

ClassifyAddress(d, ip) ==
    IF ip = NoAddress THEN OnValueError
    ELSE Return(ScanItems(d[str(ip.version)], int(ip)))

Classify(d, ip_raw) == ClassifyAddress(d, ip_address(ip_raw))

(* the set of the host netmask is fetched by key on the way:         *)
(* dict_nets[str(ip.version)][netmask], which inserts a missing key  *)
IndexAfterCallByKey(d, ip) ==
    IF ip = NoAddress THEN d
    ELSE [d EXCEPT ![str(ip.version)] =
             GetItem(@, [version |-> ip.version, ip |-> AllOnes(ip.version)])]

(* dict.items(): a view of the items, the map is left as it is *)
Items(dd) == dd

(* dict_nets after a call: of the steps of the call only the subscript   *)
(* dict_nets[str(ip.version)] and .items() touch it, and only when       *)
(* ip_address has returned; the outer map is a plain dict with both keys *)
IndexAfterCall(d, ip) ==
    IF ip = NoAddress THEN d
    ELSE [d EXCEPT ![str(ip.version)] = Items(@)]

(* a call on address ip: what it returns and the dict_nets it leaves *)
Call(d, ip) == [outcome |-> ClassifyAddress(d, ip), index |-> IndexAfterCall(d, ip)]

is_ip_private_relay(ip_raw) == Call(dict_nets, ip_address(ip_raw))

(* ---------------- the notebook ----------------------------------------- *)

NumWorkers == 2

Workers == 1..NumWorkers

(* a worker between calls; index is the dict_nets it saw when its call began, *)
(* lookups the number of times its call has evaluated the in test of line 148 *)
Idle == [pc |-> "idle", ip_raw |-> <<>>, ip |-> NoAddress, i |-> 0,
         outcome |-> Return(FALSE), index |-> EmptyDictNets, lookups |-> 0]

NoCall == [called |-> FALSE, ip_raw |-> <<>>, outcome |-> Return(FALSE)]

(* no aggregation cell has run; rows are the rows of wmf.pageview_actor *)
NotAggregated(rows) ==
    /\ pageview_actor = rows
    /\ viewers_data = <<>>
    /\ viewers_data_is_relay = <<>>
    /\ agg_viewer_data_by_relay = {}
    /\ db_table = EmptyBag
    /\ aggregated = <<>>

Init ==
    /\ relay_ranges \in SeqsUpTo(RangeTexts, MaxRanges)
    /\ earlier_ranges = <<>>
    /\ pos = 0
    /\ pc = "load"
    /\ runs = 1
    /\ dict_nets = EmptyDictNets
    /\ last = NoCall
    /\ workers = [w \in Workers |-> Idle]
    /\ NotAggregated(<<>>)

(* the error is swallowed and the cells below the loader run *)
AfterLoaderErrorSwallowed == "ready"

(* where the run continues when the loader cell raises: nothing catches it *)
AfterLoaderError == "failed"

(* the netmask entry is created before the entry is found to be no network *)
LoaderStepPartial ==
    /\ pc = "load"
    /\ pos < Len(relay_ranges)
    /\ \E net \in {ip_network(relay_ranges[pos + 1])} :
           IF net = NoNetwork
           THEN /\ pc' = "failed"
                /\ dict_nets' = [dict_nets EXCEPT !["4"] = GetItem(@, NoAddress)]
                /\ UNCHANGED pos
           ELSE /\ dict_nets' = AddNet(dict_nets, net)
                /\ pos' = pos + 1
                /\ pc' = pc
    /\ UNCHANGED <<relay_ranges, earlier_ranges, runs, last, workers, aggvars>>

(* one iteration of: for net_raw in relay_ranges.range *)
LoaderStep ==
    /\ pc = "load"
    /\ pos < Len(relay_ranges)
    /\ \E net \in {ip_network(relay_ranges[pos + 1])} :
           IF net = NoNetwork
           THEN /\ pc' = AfterLoaderError
                /\ UNCHANGED <<pos, dict_nets>>
           ELSE /\ dict_nets' = AddNet(dict_nets, net)
                /\ pos' = pos + 1
                /\ pc' = pc
    /\ UNCHANGED <<relay_ranges, earlier_ranges, runs, last, workers, aggvars>>

(* the loop is exhausted and the cells below the loader run *)
LoaderEnd ==
    /\ pc = "load"
    /\ pos = Len(relay_ranges)
    /\ pc' = "ready"
    /\ UNCHANGED <<relay_ranges, earlier_ranges, pos, runs, dict_nets, last, workers, aggvars>>

(* the loader cell is run once more while rows are being labelled *)
LoaderRerunAnyTime ==
    /\ pc = "ready"
    /\ runs < MaxRuns
    /\ runs' = runs + 1
    /\ pos' = 0
    /\ pc' = "load"
    /\ UNCHANGED <<relay_ranges, earlier_ranges, dict_nets, last, workers, aggvars>>

(* the loader cell is run once more over the same list, dict_nets kept *)
LoaderRerun ==
    /\ pc = "ready"
    /\ ~last.called
    /\ \A w \in Workers : workers[w].pc = "idle"
    /\ runs < MaxRuns
    /\ runs' = runs + 1
    /\ pos' = 0
    /\ pc' = "load"
    /\ UNCHANGED <<relay_ranges, earlier_ranges, dict_nets, last, workers, aggvars>>

(* the rows are labelled while the loader cell is still running *)
LabellingStartedEarly == pc \in {"load", "ready"}

(* the rows are labelled by the cells below the loader *)
LabellingStarted == pc = "ready"

(* a row's ip is labelled: is_relay = is_ip_private_relay(r.ip) *)
Label ==
    /\ LabellingStarted
    /\ \E ip_raw \in IpTexts : \E call \in {is_ip_private_relay(ip_raw)} :
           /\ last' = [called |-> TRUE, ip_raw |-> ip_raw, outcome |-> call.outcome]
           /\ dict_nets' = call.index
    /\ UNCHANGED <<relay_ranges, earlier_ranges, pos, pc, runs, workers, aggvars>>

Next == LoaderStep \/ LoaderEnd \/ LoaderRerun \/ Label

Spec == Init /\ [][Next]_vars

(* ---------------- parallel labelling (rdd.map over the rows) ----------- *)

(* range lists and ip texts of the parallel runs *)
ParLists ==
    { <<<<"1", ".", "0", "/", "1">>, <<"2", ":", "0", "/", "2">>>>,
      <<<<"1", ".", "0", "/", "1">>, <<"1", ".", "1", "/", "2">>, <<"0", ":", "0", "/", "2">>>>,
      <<<<"0", ":", "0", "/", "2">>>>,
      <<<<"2", ":", "0", "/", "2">>, <<"0", ":", "0", "/", "2">>, <<"1", ".", "0", "/", "1">>>> }

ParIpTexts ==
    { <<"1", ".", "1">>, <<"0", ".", "1">>, <<"2", ":", "1">>,
      <<"0", ":", "1">>, <<"3", ":", "1", ".", "1">>, <<"x">> }

InitPar ==
    /\ relay_ranges \in ParLists
    /\ earlier_ranges = <<>>
    /\ pos = 0
    /\ pc = "load"
    /\ runs = 1
    /\ dict_nets = EmptyDictNets
    /\ last = NoCall
    /\ workers = [w \in Workers |-> Idle]
    /\ NotAggregated(<<>>)

(* worker w enters is_ip_private_relay(ip_raw): ip_address, int(ip), and the *)
(* iterator over dict_nets[str(ip.version)].items(); a ValueError returns False *)
WorkerCall(w) ==
    /\ LabellingStarted
    /\ workers[w].pc \in {"idle", "done"}
    /\ \E ip_raw \in ParIpTexts : \E ip \in {ip_address(ip_raw)} :
           /\ workers' = [workers EXCEPT ![w] =
                  IF ip = NoAddress
                  THEN [pc |-> "done", ip_raw |-> ip_raw, ip |-> ip, i |-> 0,
                        outcome |-> OnValueError, index |-> dict_nets,
                        lookups |-> 0]
                  ELSE [pc |-> "loop", ip_raw |-> ip_raw, ip |-> ip, i |-> 0,
                        outcome |-> Return(FALSE), index |-> dict_nets,
                        lookups |-> 0]]
           /\ dict_nets' = IndexAfterCall(dict_nets, ip)
    /\ UNCHANGED <<relay_ranges, earlier_ranges, pos, pc, runs, last, aggvars>>

(* worker w takes the next (netmask, range_set) item, or leaves the loop *)
WorkerStep(w) ==
    /\ workers[w].pc = "loop"
    /\ \E items \in {dict_nets[str(workers[w].ip.version)]} :
           workers' = [workers EXCEPT ![w] =
               IF @.i >= Len(items)
               THEN [@ EXCEPT !.pc = "done", !.outcome = Return(FALSE)]
               ELSE IF BitAnd(int(@.ip), int(items[@.i + 1].netmask))
                           \in items[@.i + 1].range_set
               THEN [@ EXCEPT !.pc = "done", !.outcome = Return(TRUE),
                              !.lookups = @ + 1]
               ELSE [@ EXCEPT !.i = @ + 1, !.lookups = @ + 1]]
    /\ UNCHANGED <<relay_ranges, earlier_ranges, pos, pc, runs, dict_nets, last, aggvars>>

NextPar ==
    \/ LoaderStep
    \/ LoaderEnd
    \/ LoaderRerun
    \/ \E w \in Workers : WorkerCall(w)
    \/ \E w \in Workers : WorkerStep(w)

SpecPar == InitPar /\ [][NextPar]_vars

(* a worker inside the loop goes on to its next step *)
SpecParFair == SpecPar /\ \A w \in Workers : WF_vars(WorkerStep(w))

(* ---------------- the aggregation cells -------------------------------- *)

MaxRows == 2

MaxTableRows == 4

MaxDailyRuns == 3

(* the days of the rows, and the first day the non-edits notebook counts *)
Days == {1, 2, 3}

SinceDay == 2

(* a row of wmf.pageview_actor of an iOS 15 pageview outside the mobile app *)
View(day, project, ip) ==
    [day |-> day, agent_type |-> "user", is_pageview |-> TRUE,
     access_method |-> "desktop", os_family |-> "iOS", os_major |-> "15",
     normalized_host |-> [project |-> project, project_family |-> "wikipedia"],
     ip |-> ip]

(* rows of wmf.pageview_actor: views of two projects on three days from    *)
(* addresses inside and outside the ranges and from a text that is no      *)
(* address, and a view with the mobile app                                 *)
PageviewRows ==
    { View(2, "en", <<"1", ".", "1">>), View(2, "en", <<"0", ".", "1">>),
      View(2, "en", <<"x">>), View(2, "de", <<"1", ".", "1">>),
      View(2, "de", <<"2", ":", "1">>), View(3, "en", <<"1", ".", "1">>),
      View(3, "de", <<"0", ".", "1">>), View(1, "en", <<"1", ".", "1">>),
      [View(2, "en", <<"1", ".", "1">>) EXCEPT !.access_method = "mobile app"] }

(* the range lists of the aggregation runs *)
AggLists ==
    { <<<<"1", ".", "0", "/", "1">>, <<"2", ":", "0", "/", "2">>>>,
      <<<<"1", ".", "1", "/", "2">>>> }

(* the where clauses on agent_type, is_pageview, access_method and user_agent_map *)
IsIos15View(r) ==
    /\ r.agent_type = "user"
    /\ r.is_pageview = TRUE
    /\ r.access_method # "mobile app"
    /\ r.os_family = "iOS"
    /\ r.os_major = "15"

(* aggreate_daily: the rows of this_day *)
WhereDay(rows, this_day) ==
    SelectSeq(rows, LAMBDA r : r.day = this_day /\ IsIos15View(r))

(* non-edits: the rows from the first day on *)
WhereSince(rows) ==
    SelectSeq(rows, LAMBDA r : r.day >= SinceDay /\ IsIos15View(r))

(* "{}.{}".format(r.normalized_host.project, r.normalized_host.project_family) *)
Format(host) == <<host.project, ".", host.project_family>>

(* T.Row(log_date = ..., project = ..., is_relay = is_ip_private_relay(r.ip)) *)
RowOf(d, r) ==
    [log_date |-> r.day, project |-> Format(r.normalized_host),
     is_relay |-> Classify(d, r.ip).value]

(* rows whose ip is no address get no row *)
MapRowsSkipMalformed(d, rows) ==
    [i \in 1..Len(SelectSeq(rows, LAMBDA r : ip_address(r.ip) # NoAddress)) |->
        RowOf(d, SelectSeq(rows, LAMBDA r : ip_address(r.ip) # NoAddress)[i])]

(* viewers_data.rdd.map(lambda r: T.Row(...)): one row for every row *)
MapRows(d, rows) == [i \in 1..Len(rows) |-> RowOf(d, rows[i])]

(* the columns cols of a row *)
Columns(row, cols) == [c \in cols |-> row[c]]

(* groupBy(cols).agg(F.count("*").alias("num_views")): one row for every *)
(* combination of values of cols among rows, with the number of its rows *)
GroupCount(rows, cols) ==
    {[c \in cols \cup {"num_views"} |->
         IF c = "num_views"
         THEN Cardinality({i \in 1..Len(rows) : Columns(rows[i], cols) = key})
         ELSE key[c]] :
        key \in {Columns(rows[i], cols) : i \in 1..Len(rows)}}

(* insertInto without overwrite replaces the table by what is written *)
InsertOverwrite(table, rows) == SetToBag(rows)

(* agg_viewer_data_by_relay.write.insertInto(db_table): the rows are appended *)
InsertInto(table, rows) == table (+) SetToBag(rows)

InitAgg ==
    /\ relay_ranges \in AggLists
    /\ earlier_ranges = <<>>
    /\ pos = 0
    /\ pc = "load"
    /\ runs = 1
    /\ dict_nets = EmptyDictNets
    /\ last = NoCall
    /\ workers = [w \in Workers |-> Idle]
    /\ \E rows \in SeqsUpTo(PageviewRows, MaxRows) : NotAggregated(rows)

(* aggreate_daily(spark_session, this_day, db_table) *)
AggregateDaily ==
    /\ LabellingStarted
    /\ BagCardinality(db_table) < MaxTableRows
    /\ Len(aggregated) < MaxDailyRuns
    /\ \E this_day \in Days :
       \E kept \in {WhereDay(pageview_actor, this_day)} :
       \E labelled \in {MapRows(dict_nets, kept)} :
       \E agg \in {GroupCount(labelled, {"project", "log_date", "is_relay"})} :
           /\ viewers_data' = kept
           /\ viewers_data_is_relay' = labelled
           /\ agg_viewer_data_by_relay' = agg
           /\ db_table' = InsertInto(db_table, agg)
           /\ aggregated' = Append(aggregated, this_day)
    /\ UNCHANGED <<relay_ranges, earlier_ranges, pos, pc, runs, dict_nets, last, workers, pageview_actor>>

(* the cell of the non-edits notebook that counts the views by is_relay *)
AggregateByRelay ==
    /\ LabellingStarted
    /\ \E kept \in {WhereSince(pageview_actor)} :
       \E labelled \in {MapRows(dict_nets, kept)} :
           /\ viewers_data' = kept
           /\ viewers_data_is_relay' = labelled
           /\ agg_viewer_data_by_relay' = GroupCount(labelled, {"is_relay"})
    /\ UNCHANGED <<relay_ranges, earlier_ranges, pos, pc, runs, dict_nets, last, workers,
                   pageview_actor, db_table, aggregated>>

NextAgg == LoaderStep \/ LoaderEnd \/ AggregateDaily \/ AggregateByRelay

SpecAgg == InitAgg /\ [][NextAgg]_vars

(* ---------------- the range file is read again ------------------------- *)

(* the lists of the runs in which the file is read again: lists of one *)
(* family and of both, with ranges in common, and one with an entry    *)
(* that is no network                                                  *)
ReloadLists ==
    { <<<<"1", ".", "0", "/", "1">>>>,
      <<<<"1", ".", "1", "/", "2">>, <<"2", ":", "0", "/", "2">>>>,
      <<<<"0", ":", "0", "/", "2">>>>,
      <<<<"2", ":", "0", "/", "3">>, <<"0", ".", "0", "/", "0">>>>,
      <<<<"2", ":", "0", "/", "2">>, <<"x">>>>,
      <<>> }

InitReload ==
    /\ relay_ranges \in ReloadLists
    /\ earlier_ranges = <<>>
    /\ pos = 0
    /\ pc = "load"
    /\ runs = 1
    /\ dict_nets = EmptyDictNets
    /\ last = NoCall
    /\ workers = [w \in Workers |-> Idle]
    /\ NotAggregated(<<>>)

(* the cell that re-creates dict_nets is run as well *)
LoaderReloadCleared ==
    /\ pc = "ready"
    /\ ~last.called
    /\ runs < MaxRuns
    /\ \E list \in ReloadLists : relay_ranges' = list
    /\ earlier_ranges' = Append(earlier_ranges, relay_ranges)
    /\ dict_nets' = EmptyDictNets
    /\ runs' = runs + 1
    /\ pos' = 0
    /\ pc' = "load"
    /\ UNCHANGED <<last, workers, aggvars>>

(* the read_csv cell and the loader cell are run once more, on another *)
(* file; the cell that creates dict_nets is not                        *)
LoaderReload ==
    /\ pc = "ready"
    /\ ~last.called
    /\ runs < MaxRuns
    /\ \E list \in ReloadLists : relay_ranges' = list
    /\ earlier_ranges' = Append(earlier_ranges, relay_ranges)
    /\ runs' = runs + 1
    /\ pos' = 0
    /\ pc' = "load"
    /\ UNCHANGED <<dict_nets, last, workers, aggvars>>

NextReload == LoaderStep \/ LoaderEnd \/ LoaderReload \/ Label

SpecReload == InitReload /\ [][NextReload]_vars

(* ---------------- properties ------------------------------------------- *)

(* the networks of the entries the loader has consumed *)
LoadedNets ==
    {ip_network(relay_ranges[k]) :
        k \in 1..(IF runs > 1 THEN Len(relay_ranges) ELSE pos)}

(* the address of the latest call *)
LastIp == ip_address(last.ip_raw)

(* I & R.netmask == R.network_address, within one family *)
MaskMatches(I, R) ==
    /\ I.version = R.version
    /\ BitAnd(int(I), int(R.netmask)) = int(R.network_address)

(* I lies between the first and the last address of R, within one family *)
WithinBounds(I, R) ==
    /\ I.version = R.version
    /\ int(R.network_address) <= int(I)
    /\ int(I) <= int(R.network_address) + (AllOnes(R.version) - int(R.netmask))

(* the (family, netmask, network address) entries of an index *)
IndexEntries(d) ==
    UNION {UNION {{<<v, d[v][i].netmask, a>> : a \in d[v][i].range_set} :
                      i \in 1..Len(d[v])} : v \in {"4", "6"}}

NetEntry(R) == <<str(R.version), R.netmask, int(R.network_address)>>

(* every netmask is a key once and holds at least one network *)
WellFormedIndex(d) ==
    \A v \in {"4", "6"} : \A i \in 1..Len(d[v]) :
        /\ d[v][i].range_set # {}
        /\ \A j \in 1..Len(d[v]) : d[v][j].netmask = d[v][i].netmask => j = i

(* C1: when the list has loaded, an address that a loaded range R of its   *)
(* family matches under R's netmask is classified true, also when R lies   *)
(* in or overlaps other loaded ranges                                      *)
C1_Completeness ==
    (pc = "ready" /\ last.called /\ LastIp # NoAddress) =>
        \A R \in LoadedNets :
            MaskMatches(LastIp, R) => last.outcome = Return(TRUE)

(* an address inside two loaded ranges of different prefix lengths was *)
(* classified true                                                     *)
C1_Witness ==
    /\ pc = "ready"
    /\ last.called
    /\ last.outcome = Return(TRUE)
    /\ \E R1 \in LoadedNets, R2 \in LoadedNets :
           /\ R1.netmask # R2.netmask
           /\ MaskMatches(LastIp, R1)
           /\ MaskMatches(LastIp, R2)

(* C2: an address that lies in no loaded range of its own family is    *)
(* classified false                                                    *)
C2_Soundness ==
    (pc = "ready" /\ last.called /\ LastIp # NoAddress) =>
        ((\A R \in LoadedNets : ~WithinBounds(LastIp, R))
             => last.outcome = Return(FALSE))

(* an address was classified false although masking it with the netmask *)
(* of one loaded range of its family gives the network address of       *)
(* another                                                              *)
C2_Witness ==
    /\ pc = "ready"
    /\ last.called
    /\ LastIp # NoAddress
    /\ last.outcome = Return(FALSE)
    /\ \E R1 \in LoadedNets, R2 \in LoadedNets :
           /\ R1.version = LastIp.version
           /\ R2.version = LastIp.version
           /\ BitAnd(int(LastIp), int(R1.netmask)) = int(R2.network_address)

(* C3: a text that is no IP address is classified false, and the call *)
(* does not raise                                                     *)
C3_Total ==
    (last.called /\ LastIp = NoAddress) => last.outcome = Return(FALSE)

(* a text that is no address was classified against a non-empty index *)
C3_Witness ==
    /\ last.called
    /\ LastIp = NoAddress
    /\ Len(last.ip_raw) > 0
    /\ dict_nets["4"] # <<>>
    /\ dict_nets["6"] # <<>>

(* C4: an address is classified false when every loaded range is of the *)
(* other family                                                         *)
C4_NoCrossMatch ==
    (pc = "ready" /\ last.called /\ LastIp # NoAddress) =>
        ((\A R \in LoadedNets : R.version # LastIp.version)
             => last.outcome = Return(FALSE))

(* an IPv6 address was classified false whose integer value is that of *)
(* an IPv4 address inside a loaded IPv4 range                          *)
C4_Witness ==
    /\ pc = "ready"
    /\ last.called
    /\ LastIp.version = 6
    /\ last.outcome = Return(FALSE)
    /\ \A R \in LoadedNets : R.version = 4
    /\ \E R \in LoadedNets :
           MaskMatches([version |-> 4, ip |-> int(LastIp)], R)

(* the text is an IPv6 literal whose leading hextets are the mapped prefix *)
(* and whose tail is a dotted IPv4 address                                 *)
IsMappedLiteral(text) ==
    /\ Len(text) > 2
    /\ text[1] = HexDigits[Len(HexDigits)]
    /\ text[2] = ":"
    /\ IPv4Address(SubSeq(text, 3, Len(text))) # NoAddress

(* the value of the mapped literal in the IPv6 bit width *)
MappedValue(text) ==
    (Pow2(V6Bits - V4Bits) - 1) * Pow2(V4Bits)
        + int(IPv4Address(SubSeq(text, 3, Len(text))))

(* C5: an IPv4-mapped IPv6 literal is classified true exactly when a   *)
(* loaded IPv6 range contains its value in the IPv6 bit width          *)
C5_MappedIsIPv6 ==
    (pc = "ready" /\ last.called /\ IsMappedLiteral(last.ip_raw)) =>
        last.outcome =
            Return(\E R \in LoadedNets :
                       WithinBounds([version |-> 6, ip |-> MappedValue(last.ip_raw)], R))

(* a mapped literal was classified false while a loaded IPv4 range *)
(* covers its IPv4 address                                         *)
C5_Witness ==
    /\ pc = "ready"
    /\ last.called
    /\ IsMappedLiteral(last.ip_raw)
    /\ last.outcome = Return(FALSE)
    /\ \E R \in LoadedNets :
           WithinBounds(IPv4Address(SubSeq(last.ip_raw, 3, Len(last.ip_raw))), R)

(* C6: a finished call of a worker returned what the call returns on the *)
(* index alone, and the index is the one every call in progress began    *)
(* with                                                                  *)
C6_ParallelSafe ==
    \A w \in Workers :
        /\ workers[w].pc # "idle" => dict_nets = workers[w].index
        /\ workers[w].pc = "done" =>
               workers[w].outcome = Classify(workers[w].index, workers[w].ip_raw)

(* one worker has returned true while another is inside the loop *)
C6_Witness ==
    \E w1 \in Workers, w2 \in Workers :
        /\ workers[w1].pc = "done"
        /\ workers[w1].outcome = Return(TRUE)
        /\ workers[w2].pc = "loop"
        /\ workers[w2].i > 0

(* C7: a call is answered only from the index of a list that loaded  *)
(* completely; after a failed load no call is made                   *)
C7_NoPartialIndex ==
    (last.called \/ \E w \in Workers : workers[w].pc # "idle") =>
        /\ pc = "ready"
        /\ pos = Len(relay_ranges)
        /\ \A k \in 1..Len(relay_ranges) :
               /\ ip_network(relay_ranges[k]) # NoNetwork
               /\ NetEntry(ip_network(relay_ranges[k])) \in IndexEntries(dict_nets)

(* the load failed with a part of the list in the index *)
C7_Witness ==
    pc = "failed" /\ pos > 0 /\ IndexEntries(dict_nets) # {} /\ ~last.called

(* C8: an entry that is no network stops the loader, and the index then *)
(* holds exactly the entries of the valid ranges before it              *)
C8_FailureLeavesPrefix ==
    /\ \A k \in 1..pos : ip_network(relay_ranges[k]) # NoNetwork
    /\ pc = "failed" =>
           /\ pos < Len(relay_ranges)
           /\ ip_network(relay_ranges[pos + 1]) = NoNetwork
           /\ WellFormedIndex(dict_nets)
           /\ IndexEntries(dict_nets)
                  = {NetEntry(ip_network(relay_ranges[k])) : k \in 1..pos}

(* the loader failed on the second entry after storing the first *)
C8_Witness ==
    pc = "failed" /\ pos = 1 /\ Cardinality(IndexEntries(dict_nets)) = 1

(* C9: two finished calls on the same text returned the same result *)
C9_Deterministic ==
    \A w1 \in Workers, w2 \in Workers :
        (/\ workers[w1].pc = "done"
         /\ workers[w2].pc = "done"
         /\ workers[w1].ip_raw = workers[w2].ip_raw)
            => workers[w1].outcome = workers[w2].outcome

(* two workers have finished calls on the same address, both true *)
C9_Witness ==
    \E w1 \in Workers, w2 \in Workers :
        /\ w1 # w2
        /\ workers[w1].pc = "done"
        /\ workers[w2].pc = "done"
        /\ workers[w1].ip_raw = workers[w2].ip_raw
        /\ workers[w1].outcome = Return(TRUE)

(* the list without the later occurrences of an entry *)
RECURSIVE Dedup(_)
Dedup(list) ==
    IF Len(list) = 0 THEN <<>>
    ELSE IF \E k \in 1..(Len(list) - 1) : list[k] = Last(list) THEN Dedup(Front(list))
    ELSE Append(Dedup(Front(list)), Last(list))

(* the index after loading a list of valid entries, each once *)
RECURSIVE LoadAll(_)
LoadAll(list) ==
    IF Len(list) = 0 THEN EmptyDictNets
    ELSE AddNet(LoadAll(Front(list)), ip_network(Last(list)))

(* C10: a duplicate entry raises no error, and after loading (once or   *)
(* again) the index is the one loading each distinct entry once yields  *)
C10_DuplicatesHarmless ==
    /\ pc = "failed" => ip_network(relay_ranges[pos + 1]) = NoNetwork
    /\ pc = "ready" => dict_nets = LoadAll(Dedup(relay_ranges))

(* a list holding the same entry twice has loaded and an address was *)
(* classified true                                                   *)
C10_Witness ==
    /\ pc = "ready"
    /\ Len(relay_ranges) = 2
    /\ relay_ranges[1] = relay_ranges[2]
    /\ last.called
    /\ last.outcome = Return(TRUE)

(* the example list: one IPv4 range of the shortest non-zero prefix and one *)
(* IPv6 range, the shape of ["17.0.0.0/8", "2403:300::/32"] at the model's  *)
(* address widths                                                           *)
ExampleRanges ==
    <<<<"1", ".", "0", "/", "1">>, <<"2", ":", "0", "/", "2">>>>

(* the example inputs and their labels: an address inside the IPv4 range,   *)
(* one in the neighbouring IPv4 network, one inside the IPv6 range, one in  *)
(* the neighbouring IPv6 network, the empty text and a text that is no      *)
(* address (the shapes of "17.1.2.3", "18.1.2.3", "2403:300::1",            *)
(* "2403:301::1", "" and "not-an-ip")                                       *)
ExampleLabels ==
    { <<<<"1", ".", "1">>, TRUE>>, <<<<"0", ".", "1">>, FALSE>>,
      <<<<"2", ":", "1">>, TRUE>>, <<<<"3", ":", "1">>, FALSE>>,
      <<<<>>, FALSE>>, <<<<"x">>, FALSE>> }

(* C11: with the example list of one IPv4 and one IPv6 range loaded, the   *)
(* address inside the IPv4 range and the address inside the IPv6 range are *)
(* classified true; the addresses in the neighbouring networks, the empty  *)
(* text and the text that is no address are classified false               *)
C11_Example ==
    (pc = "ready" /\ relay_ranges = ExampleRanges /\ last.called) =>
        \A e \in ExampleLabels :
            last.ip_raw = e[1] => last.outcome = Return(e[2])

(* the address inside the IPv6 range of the example list was classified *)
(* true                                                                 *)
C11_Witness ==
    /\ pc = "ready"
    /\ relay_ranges = ExampleRanges
    /\ last.called
    /\ last.ip_raw = <<"2", ":", "1">>
    /\ last.outcome = Return(TRUE)

(* the prefix length an entry of the list is written with *)
PrefixOfText(version, text) ==
    IF Contains(text, "/") THEN MakeNetmask(version, Split(text, "/")[2])
    ELSE MaxPrefixlen(version)

(* the lowest address of the one loaded range: its network address N *)
LowestOf(text) == int(ip_network(text).network_address)

(* the highest address of the one loaded range: N with all host bits set *)
HighestOf(text) ==
    LowestOf(text)
        + Pow2(MaxPrefixlen(ip_network(text).version)
                   - PrefixOfText(ip_network(text).version, text)) - 1

(* C12: with a single range loaded, its lowest address (the network       *)
(* address) and its highest address (all host bits set) are classified    *)
(* true, and the addresses of its family immediately below the lowest and *)
(* immediately above the highest are classified false                     *)
C12_Boundaries ==
    (/\ pc = "ready"
     /\ Len(relay_ranges) = 1
     /\ last.called
     /\ LastIp.version = ip_network(relay_ranges[1]).version) =>
        /\ int(LastIp) \in {LowestOf(relay_ranges[1]), HighestOf(relay_ranges[1])}
               => last.outcome = Return(TRUE)
        /\ int(LastIp) \in {LowestOf(relay_ranges[1]) - 1, HighestOf(relay_ranges[1]) + 1}
               => last.outcome = Return(FALSE)

(* with a single range of more than one address loaded, the address just *)
(* above its highest address was classified false                        *)
C12_Witness ==
    /\ pc = "ready"
    /\ Len(relay_ranges) = 1
    /\ last.called
    /\ LastIp.version = ip_network(relay_ranges[1]).version
    /\ HighestOf(relay_ranges[1]) > LowestOf(relay_ranges[1])
    /\ int(LastIp) = HighestOf(relay_ranges[1]) + 1
    /\ last.outcome = Return(FALSE)

(* the family of a key of dict_nets as a version number *)
VersionOf(v) == IF v = "4" THEN 4 ELSE 6

(* C13: in every state, while the list is loading and after, every network *)
(* address stored under a family and a netmask has no bit outside the      *)
(* netmask and fits in the family's bit width, and the network address of  *)
(* every range loaded so far is in the set keyed by its family and netmask *)
C13_IndexInvariant ==
    /\ \A e \in IndexEntries(dict_nets) :
           /\ BitAnd(e[3], int(e[2])) = e[3]
           /\ 0 <= e[3]
           /\ e[3] <= AllOnes(VersionOf(e[1]))
           /\ e[2].version = VersionOf(e[1])
    /\ \A R \in LoadedNets : NetEntry(R) \in IndexEntries(dict_nets)

(* the loader is between two entries, and the index holds a network *)
(* address that is not zero under a netmask shorter than the family *)
C13_Witness ==
    /\ pc = "load"
    /\ 0 < pos
    /\ pos < Len(relay_ranges)
    /\ \E e \in IndexEntries(dict_nets) :
           e[3] # 0 /\ int(e[2]) # AllOnes(VersionOf(e[1]))

(* C14: a call of is_ip_private_relay leaves dict_nets as it was, whatever *)
(* the text and the result: the same families, the same netmask keys per   *)
(* family in the same order, the same sets of network addresses; no empty  *)
(* netmask entry is created by the lookup                                  *)
C14_IndexUnchanged == [][last' # last => dict_nets' = dict_nets]_vars

(* an address was classified false against an index that has netmasks of *)
(* its family but not the host netmask                                   *)
C14_Witness ==
    /\ pc = "ready"
    /\ last.called
    /\ LastIp # NoAddress
    /\ last.outcome = Return(FALSE)
    /\ dict_nets[str(LastIp.version)] # <<>>
    /\ ~HasKey(dict_nets[str(LastIp.version)],
               [version |-> LastIp.version, ip |-> AllOnes(LastIp.version)])

(* a call of is_ip_private_relay has begun, in the notebook or in a worker *)
CallMade == last.called \/ \E w \in Workers : workers[w].pc # "idle"

(* C15: every call of is_ip_private_relay, those of the workers of the map *)
(* over the rows included, happens when the loader loop has consumed the   *)
(* whole list, and from the first call on no step changes the index or     *)
(* starts the loader again                                                 *)
C15_BuildThenFreeze ==
    [][/\ CallMade' => (pc' = "ready" /\ pos' = Len(relay_ranges'))
       /\ CallMade => (dict_nets' = dict_nets /\ pc' = "ready")]_vars

(* the loader ran twice over a list of both families, and then one worker *)
(* finished a call while another is inside the loop                       *)
C15_Witness ==
    /\ runs > 1
    /\ dict_nets["4"] # <<>>
    /\ dict_nets["6"] # <<>>
    /\ \E w1 \in Workers, w2 \in Workers :
           workers[w1].pc = "done" /\ workers[w2].pc = "loop"

(* the integer of bit width w with exactly the top p bits set *)
TopBits(w, p) == Pow2(w) - Pow2(w - p)

(* the entry of the index the claim gives for a loaded network R whose *)
(* list entry is text: family, netmask integer, network address        *)
StoredAs(R, text, d) ==
    \E i \in 1..Len(d[str(R.version)]) :
        /\ int(d[str(R.version)][i].netmask)
               = TopBits(MaxPrefixlen(R.version), PrefixOfText(R.version, text))
        /\ int(R.network_address) \in d[str(R.version)][i].range_set

(* the bit-AND of address I with the claim's netmask integer of the list *)
(* entry text gives the network address of its network R                 *)
AndMatches(I, R, text) ==
    /\ R.version = I.version
    /\ BitAnd(int(I), TopBits(MaxPrefixlen(R.version), PrefixOfText(R.version, text)))
           = int(R.network_address)

(* C16: the netmask stored for a range of prefix length p in a family of   *)
(* bit width w is the integer 2^w - 2^(w-p), for every p from 0 to w, and  *)
(* the classifier's result is that of the bit-AND with that integer        *)
C16_NetmaskValue ==
    /\ \A k \in 1..pos :
           StoredAs(ip_network(relay_ranges[k]), relay_ranges[k], dict_nets)
    /\ \A e \in IndexEntries(dict_nets) :
           \E p \in 0..MaxPrefixlen(VersionOf(e[1])) :
               int(e[2]) = TopBits(MaxPrefixlen(VersionOf(e[1])), p)
    /\ (pc = "ready" /\ last.called /\ LastIp # NoAddress) =>
           \E I \in {LastIp} :
               last.outcome =
                   Return(\E k \in 1..Len(relay_ranges) :
                              AndMatches(I, ip_network(relay_ranges[k]), relay_ranges[k]))

(* IPv6 ranges of prefix lengths 1 and 3 are loaded under the netmasks of *)
(* exactly 1 and 3 top bits, and an address was classified true           *)
C16_Witness ==
    /\ pc = "ready"
    /\ HasKey(dict_nets["6"], [version |-> 6, ip |-> TopBits(V6Bits, 1)])
    /\ HasKey(dict_nets["6"], [version |-> 6, ip |-> TopBits(V6Bits, 3)])
    /\ last.called
    /\ last.outcome = Return(TRUE)

(* the lists that hold the entries of list in another order *)
PermutationsOf(list) ==
    {[i \in 1..Len(list) |-> list[f[i]]] :
        f \in {g \in [1..Len(list) -> 1..Len(list)] :
                  \A i \in 1..Len(list), j \in 1..Len(list) : g[i] = g[j] => i = j}}

(* the index after loading a list of networks in the order of the list *)
RECURSIVE LoadNets(_)
LoadNets(nets) ==
    IF Len(nets) = 0 THEN EmptyDictNets
    ELSE AddNet(LoadNets(Front(nets)), Last(nets))

(* the call on address ip returns outcome whatever the order the networks *)
(* nets are loaded in                                                     *)
SameInEveryOrder(nets, ip, outcome) ==
    \A perm \in PermutationsOf(nets) :
        ClassifyAddress(LoadNets(perm), ip) = outcome

(* C17: the result of a call does not depend on the order in which the     *)
(* ranges were loaded, and so not on the order the netmasks are iterated   *)
(* in: loading any permutation of the list gives the same result for the   *)
(* same text                                                               *)
C17_OrderIndependent ==
    (pc = "ready" /\ last.called) =>
        SameInEveryOrder([k \in 1..Len(relay_ranges) |-> ip_network(relay_ranges[k])],
                         LastIp, last.outcome)

(* an address was classified true that only the range loaded second, *)
(* under another netmask than the first, matches                     *)
C17_Witness ==
    /\ pc = "ready"
    /\ Len(relay_ranges) = 2
    /\ last.called
    /\ last.outcome = Return(TRUE)
    /\ ip_network(relay_ranges[1]).version = LastIp.version
    /\ ip_network(relay_ranges[1]).netmask # ip_network(relay_ranges[2]).netmask
    /\ ~MaskMatches(LastIp, ip_network(relay_ranges[1]))
    /\ MaskMatches(LastIp, ip_network(relay_ranges[2]))

(* the netmasks of the loaded ranges of a family *)
NetmasksOf(version) == {R.netmask : R \in {Q \in LoadedNets : Q.version = version}}

(* C18: a call inside the loop comes to its end, and a call evaluates the  *)
(* mask-and-lookup test at most once per distinct netmask loaded for the   *)
(* family of its address: not at all for a text that is no address, not    *)
(* once per loaded range, and never for a netmask of the other family      *)
C18_BoundedLookups ==
    /\ [](\A w \in Workers :
              workers[w].lookups <= Cardinality(NetmasksOf(workers[w].ip.version)))
    /\ \A w \in Workers : (workers[w].pc = "loop") ~> (workers[w].pc = "done")

(* a call on an address of a family with two loaded ranges under one   *)
(* netmask, the other family loaded too, has returned false after one  *)
(* lookup                                                              *)
C18_Witness ==
    \E w \in Workers :
        /\ workers[w].pc = "done"
        /\ workers[w].ip # NoAddress
        /\ workers[w].outcome = Return(FALSE)
        /\ workers[w].lookups = 1
        /\ Cardinality({R \in LoadedNets : R.version = workers[w].ip.version}) = 2
        /\ \E R \in LoadedNets : R.version # workers[w].ip.version

(* the columns the latest aggregate is grouped by *)
GroupingColumns ==
    UNION {DOMAIN a \ {"num_views"} : a \in agg_viewer_data_by_relay}

(* two rows have the same value in every column of cols *)
Agree(r1, r2, cols) == \A c \in cols : r1[c] = r2[c]

(* the sum of num_views over a set of rows of the aggregate *)
RECURSIVE SumViews(_)
SumViews(aggrows) ==
    IF aggrows = {} THEN 0
    ELSE (CHOOSE a \in aggrows : TRUE).num_views
             + SumViews(aggrows \ {CHOOSE a \in aggrows : TRUE})

(* num_views counted under is_relay = label for the project and date of   *)
(* row: the rows of the aggregate with that label that are not of another *)
(* project or date                                                        *)
ViewsUnder(row, label) ==
    SumViews({a \in agg_viewer_data_by_relay :
                  /\ a.is_relay = label
                  /\ Agree(row, a, DOMAIN a \cap {"project", "log_date"})})

(* the kept rows of the project and date of a labelled row *)
KeptLike(row) ==
    {j \in 1..Len(viewers_data) :
        /\ Format(viewers_data[j].normalized_host) = row.project
        /\ viewers_data[j].day = row.log_date}

(* every kept row has one labelled row, false when its ip is no address *)
LabelledOnce ==
    /\ Len(viewers_data_is_relay) = Len(viewers_data)
    /\ \A i \in 1..Len(viewers_data) :
           /\ viewers_data_is_relay[i].is_relay \in BOOLEAN
           /\ viewers_data_is_relay[i].project = Format(viewers_data[i].normalized_host)
           /\ viewers_data_is_relay[i].log_date = viewers_data[i].day
           /\ ip_address(viewers_data[i].ip) = NoAddress
                  => viewers_data_is_relay[i].is_relay = FALSE

(* C19 as stated: every kept row is labelled once, and for every project  *)
(* and date the views counted under true plus the views counted under     *)
(* false are the kept rows of that project and date                       *)
C19_PerProjectAndDate ==
    /\ LabelledOnce
    /\ \A i \in 1..Len(viewers_data_is_relay) :
           ViewsUnder(viewers_data_is_relay[i], TRUE)
               + ViewsUnder(viewers_data_is_relay[i], FALSE)
                   = Cardinality(KeptLike(viewers_data_is_relay[i]))

(* C19: every kept row gets exactly one labelled row (false when its ip   *)
(* is no address) and is counted in exactly one row of the aggregate, and *)
(* for every combination of the grouping columns other than is_relay      *)
(* (project and log_date in aggreate_daily, none in the non-edits cell,   *)
(* which groups by is_relay alone) the views under true plus the views    *)
(* under false are the kept rows of that combination                      *)
C19_Conservation ==
    /\ LabelledOnce
    /\ \A i \in 1..Len(viewers_data_is_relay) :
           /\ Cardinality({a \in agg_viewer_data_by_relay :
                  Agree(viewers_data_is_relay[i], a, GroupingColumns)}) = 1
           /\ SumViews({a \in agg_viewer_data_by_relay :
                  Agree(viewers_data_is_relay[i], a, GroupingColumns \ {"is_relay"})})
                 = Cardinality({j \in 1..Len(viewers_data_is_relay) :
                       Agree(viewers_data_is_relay[i], viewers_data_is_relay[j],
                             GroupingColumns \ {"is_relay"})})
    /\ \A a \in agg_viewer_data_by_relay :
           a.num_views = Cardinality({i \in 1..Len(viewers_data_is_relay) :
               Agree(viewers_data_is_relay[i], a, GroupingColumns)})
    /\ SumViews(agg_viewer_data_by_relay) = Len(viewers_data)

(* aggreate_daily has counted, for one project and date, a view from a *)
(* text that is no address under false and another view under true     *)
C19_Witness ==
    /\ \E i \in 1..Len(viewers_data) : ip_address(viewers_data[i].ip) = NoAddress
    /\ \E a1 \in agg_viewer_data_by_relay, a2 \in agg_viewer_data_by_relay :
           /\ "project" \in DOMAIN a1
           /\ a1.project = a2.project
           /\ a1.log_date = a2.log_date
           /\ a1.is_relay
           /\ ~a2.is_relay
    /\ db_table # EmptyBag

(* C20: a step that changes the index keeps every stored network address, *)
(* adds at most one, and every text the index classified true before the  *)
(* step is classified true after it                                       *)
C20_IndexGrows ==
    [][dict_nets' # dict_nets =>
          /\ IndexEntries(dict_nets) \subseteq IndexEntries(dict_nets')
          /\ Cardinality(IndexEntries(dict_nets'))
                 <= Cardinality(IndexEntries(dict_nets)) + 1
          /\ \A ip_raw \in IpTexts :
                 Classify(dict_nets, ip_raw) = Return(TRUE)
                     => Classify(dict_nets', ip_raw) = Return(TRUE)]_vars

(* the loader has stored a second network address, and an address that *)
(* only the first range matches is classified true by the index of the *)
(* first range and by the index of both                                *)
C20_Witness ==
    /\ pc = "load"
    /\ pos = 2
    /\ Cardinality(IndexEntries(dict_nets)) = 2
    /\ \E ip_raw \in IpTexts :
           /\ Classify(LoadAll(<<relay_ranges[1]>>), ip_raw) = Return(TRUE)
           /\ ~MaskMatches(ip_address(ip_raw), ip_network(relay_ranges[2]))
           /\ Classify(dict_nets, ip_raw) = Return(TRUE)

(* the lists the loader has run over to their end: the earlier ones, and *)
(* the present one when it has loaded                                   *)
ListsLoaded ==
    {earlier_ranges[k] : k \in 1..Len(earlier_ranges)}
        \cup (IF pc = "ready" THEN {relay_ranges} ELSE {})

(* C21: when list A and then list B have been loaded into the same        *)
(* dict_nets, a text is classified relay exactly when it is under the     *)
(* index of A alone or under the index of B alone; nothing of A is lost   *)
C21_Additive ==
    /\ \A k \in 1..Len(earlier_ranges) :
           IndexEntries(LoadAll(earlier_ranges[k])) \subseteq IndexEntries(dict_nets)
    /\ (pc = "ready" /\ last.called) =>
           last.outcome =
               Return(\E list \in ListsLoaded :
                          Classify(LoadAll(list), last.ip_raw) = Return(TRUE))

(* after list A and then another list B, an address was classified true *)
(* that is relay under A alone and not under B alone                    *)
C21_Witness ==
    /\ pc = "ready"
    /\ Len(earlier_ranges) = 1
    /\ earlier_ranges[1] # relay_ranges
    /\ last.called
    /\ last.outcome = Return(TRUE)
    /\ Classify(LoadAll(earlier_ranges[1]), last.ip_raw) = Return(TRUE)
    /\ Classify(LoadAll(relay_ranges), last.ip_raw) = Return(FALSE)

(* the address ip_int has a bit set below its prefix of prefixlen bits *)
HostBitsSet(ip_int, prefixlen, width) ==
    /\ ip_int # ValueError
    /\ prefixlen # ValueError
    /\ ip_int % Pow2(width - prefixlen) # 0

(* the entry is an address and a prefix of one family, and the address *)
(* has bits set outside the prefix                                     *)
HasHostBits(text) ==
    /\ Len(Split(text, "/")) = 2
    /\ \E version \in {4, 6} :
           HostBitsSet(IpIntFromString(version, Split(text, "/")[1]),
                       MakeNetmask(version, Split(text, "/")[2]),
                       MaxPrefixlen(version))

(* C22: the loader step on an entry whose address has bits set outside   *)
(* its prefix ends in the error and leaves the index as it was: neither  *)
(* the masked network address nor the unmasked address is inserted       *)
C22_HostBitsRejected ==
    [][(pc = "load" /\ pos < Len(relay_ranges) /\ HasHostBits(relay_ranges[pos + 1]))
           => (pc' = "failed" /\ dict_nets' = dict_nets /\ pos' = pos)]_vars

(* the loader has failed on an entry with bits set outside its prefix, *)
(* after storing a range, and the index holds that range alone         *)
C22_Witness ==
    /\ pc = "failed"
    /\ pos = 1
    /\ HasHostBits(relay_ranges[pos + 1])
    /\ Cardinality(IndexEntries(dict_nets)) = 1

(* the family an entry is written in *)
FamilyOfText(text) == IF Contains(text, ":") THEN 6 ELSE 4

(* the entry is written with prefix length 0 *)
IsPrefixZero(text) ==
    Len(Split(text, "/")) = 2 /\ Split(text, "/")[2] = <<"0">>

(* the entry is one address: written without a prefix, or with the full one *)
IsFullPrefix(text) ==
    \/ Len(Split(text, "/")) = 1
    \/ /\ Len(Split(text, "/")) = 2
       /\ PrefixFromPrefixString(FamilyOfText(text), Split(text, "/")[2])
              = MaxPrefixlen(FamilyOfText(text))

(* C23: with a range of prefix length 0 loaded, every address of its      *)
(* family is classified true, and an address of the other family is       *)
(* classified false unless a range of that family is loaded; with a range *)
(* of full prefix length loaded alone, exactly its one address is         *)
(* classified true                                                        *)
C23_PrefixExtremes ==
    (pc = "ready" /\ last.called) =>
        /\ \A k \in 1..Len(relay_ranges) :
               IsPrefixZero(relay_ranges[k]) =>
                   /\ LastIp.version = FamilyOfText(relay_ranges[k])
                          => last.outcome = Return(TRUE)
                   /\ (\A j \in 1..Len(relay_ranges) :
                           FamilyOfText(relay_ranges[j]) = FamilyOfText(relay_ranges[k]))
                          => (LastIp.version # FamilyOfText(relay_ranges[k])
                                  => last.outcome = Return(FALSE))
        /\ (Len(relay_ranges) = 1 /\ IsFullPrefix(relay_ranges[1])) =>
               last.outcome =
                   Return(LastIp # NoAddress
                              /\ LastIp = ip_address(Split(relay_ranges[1], "/")[1]))

(* with the IPv6 range of prefix length 0 loaded alone, an IPv6 address *)
(* other than its network address was classified true                   *)
C23_Witness ==
    /\ pc = "ready"
    /\ Len(relay_ranges) = 1
    /\ IsPrefixZero(relay_ranges[1])
    /\ FamilyOfText(relay_ranges[1]) = 6
    /\ last.called
    /\ LastIp.version = 6
    /\ int(LastIp) # 0
    /\ last.outcome = Return(TRUE)

(* the (project, log_date, is_relay) groups of the views of day this_day *)
ObservedGroups(this_day) ==
    {[project |-> Format(pageview_actor[i].normalized_host),
      log_date |-> this_day,
      is_relay |-> Classify(dict_nets, pageview_actor[i].ip).value] :
        i \in {j \in 1..Len(pageview_actor) :
                  pageview_actor[j].day = this_day /\ IsIos15View(pageview_actor[j])}}

(* the rows of table of the group key *)
RowsOfGroup(table, key) ==
    {r \in BagToSet(table) : Agree(r, key, {"project", "log_date", "is_relay"})}

(* table holds at most one row for every (project, log_date, is_relay) *)
OneRowPerGroup(table) ==
    \A r \in BagToSet(table) :
        CopiesIn(r, table) = 1 /\ RowsOfGroup(table, r) = {r}

(* the number of runs of aggreate_daily for day this_day *)
RunsFor(this_day) ==
    Cardinality({i \in 1..Len(aggregated) : aggregated[i] = this_day})

(* C24: a run of aggreate_daily for a day keeps every row of the table   *)
(* with its number of copies and adds exactly one row for every group of *)
(* that day's views and no other row; the table holds at most one row    *)
(* per (project, log_date, is_relay) while no day was aggregated twice,  *)
(* and holds two rows of one group once a day with views was             *)
C24_AppendOnly ==
    /\ [][aggregated' # aggregated =>
             /\ \A r \in BagToSet(db_table) :
                    CopiesIn(r, db_table') >= CopiesIn(r, db_table)
             /\ OneRowPerGroup(db_table' (-) db_table)
             /\ {Columns(r, {"project", "log_date", "is_relay"}) :
                     r \in BagToSet(db_table' (-) db_table)}
                    = ObservedGroups(aggregated'[Len(aggregated')])
             /\ BagCardinality(db_table')
                    = BagCardinality(db_table)
                          + Cardinality(ObservedGroups(aggregated'[Len(aggregated')]))]_vars
    /\ []((\A this_day \in Days : RunsFor(this_day) <= 1) => OneRowPerGroup(db_table))
    /\ []((\E this_day \in Days :
               RunsFor(this_day) > 1 /\ ObservedGroups(this_day) # {})
              => ~OneRowPerGroup(db_table))

(* aggreate_daily ran for two different days, and the table holds the *)
(* row of the first run beside the row of the second                  *)
C24_Witness ==
    /\ Len(aggregated) = 2
    /\ aggregated[1] # aggregated[2]
    /\ ObservedGroups(aggregated[1]) # {}
    /\ ObservedGroups(aggregated[2]) # {}
    /\ BagCardinality(db_table) >= 2
    /\ \A k \in 1..2 :
           \E r \in BagToSet(db_table) : r.log_date = aggregated[k]

====
